---- MODULE Spec2Model ----
(***************************************************************************)
(* Reset Chance: the success-count analysis (analysis/reset_chance.rs),   *)
(* the caching key/value component built on it (component/reset_chance.rs) *)
(* and the parser of its layout settings (layout/parser/reset_chance.rs).  *)
(*                                                                         *)
(* Option<T> is modelled as a sequence of length at most one:              *)
(* None is <<>>, Some(x) is <<x>>.                                         *)
(***************************************************************************)
EXTENDS Integers, Sequences, FiniteSets, TLC

VARIABLES
    settings,         \* Component.settings
    timer_phase,      \* Component.timer_phase   : Option<TimerPhase>
    split_index,      \* Component.split_index   : Option<usize>
    success_counts,   \* Component.success_counts: Option<SuccessCounts>
    timer,            \* the Snapshot the last call borrowed, until its result is released
    before,           \* the three cache fields as update_state found them
    result,           \* what reset_chance::calculate returned to its caller, if it ran
    locals,           \* update_state's locals `counts` and `chance` at its end
    state,            \* the key_value::State handed back by Component::state
    panicked,         \* a panic has unwound the call
    panic_message,    \* the message of that panic
    overflow_checks,  \* build profile: are integer overflow checks compiled in
    description,      \* the SettingsDescription handed back by settings_description
    parser,           \* layout parser: the tags read so far and the parser's locals
    previous          \* what the caller kept of the refreshes before, latest first

vars == <<settings, timer_phase, split_index, success_counts, timer, before, result,
          locals, state, panicked, panic_message, overflow_checks, description,
          parser, previous>>

None == <<>>
Some(x) == <<x>>


-----------------------------------------------------------------------------
(* Bounds of the model.                                                    *)

\* number of segments of the run
NumSegments == 2
\* largest Run::attempt_count
MaxAttemptCount == 2
\* longest Run::attempt_history
MaxHistory == 2
\* most actual runs recorded in one segment's history
MaxActualRuns == 2
\* most child tags of a component's Settings element in a layout file
MaxTags == 3
\* largest index handed to set_value
MaxIndex == 7

-----------------------------------------------------------------------------
(* The timer snapshot read by the analysis.                                *)

TimerPhase == {"NotRunning", "Running", "Paused", "Ended"}

\* An attempt of the attempt history is represented by whether its
\* time().real_time is Some.
AttemptHistories == UNION {[1..n -> BOOLEAN] : n \in 0..MaxHistory}

\* A segment is represented by the number of entries iter_actual_runs()
\* yields for its segment history.
SegmentLists == [1..NumSegments -> 0..MaxActualRuns]

Runs == [attempt_count : 0..MaxAttemptCount,
         attempt_history : AttemptHistories,
         segments : SegmentLists]

\* The split indices a snapshot in the given phase can carry: the segments
\* are indexed only while an attempt is in progress, where the index stays
\* below the number of segments.
SplitIndices(phase) ==
    IF phase \in {"Running", "Paused"}
    THEN {None} \cup {Some(i) : i \in 0..(NumSegments - 1)}
    ELSE {None} \cup {Some(i) : i \in 0..NumSegments}

Snapshots ==
    UNION {[phase : {p}, split_index : SplitIndices(p), run : Runs] : p \in TimerPhase}

-----------------------------------------------------------------------------
(* analysis/reset_chance.rs                                                *)

SuccessCounts(successful, total) ==
    [successful_attempts |-> successful, total_attempts |-> total]

\* a faulty variant: counts every attempt of the history, completed or not
total_successful_attempts_all(run) == Len(run.attempt_history)

total_successful_attempts(run) ==
    Cardinality({k \in DOMAIN run.attempt_history : run.attempt_history[k]})

unwrap_or_default(index) == IF index = None THEN 0 ELSE index[1]

\* segments()[i].segment_history().iter_actual_runs().count(), i zero-based
actual_runs(run, i) == run.segments[i + 1]

\* a faulty variant: the attempts that reached the split are always the run's attempts
total_attempts_run_level(run, current_index) == run.attempt_count

total_attempts_reaching(run, current_index) ==
    IF current_index = 0
    THEN run.attempt_count
    ELSE actual_runs(run, current_index - 1)

\* a faulty variant: the attempt that just ended is not counted
ended_count_without_current(run) == total_successful_attempts(run)

ended_count(run) == 1 + total_successful_attempts(run)

calculate(t) ==
    LET phase == t.phase
        run == t.run
    IN  IF phase \in {"Running", "Paused"}
        THEN LET current_index == unwrap_or_default(t.split_index)
             IN  SuccessCounts(actual_runs(run, current_index),
                               total_attempts_reaching(run, current_index))
        ELSE IF phase = "Ended"
        THEN SuccessCounts(ended_count(run), ended_count(run))
        ELSE SuccessCounts(total_successful_attempts(run), run.attempt_count)

-----------------------------------------------------------------------------
(* u32 arithmetic and the f64 percentage, as update_state uses them.       *)
(* A value that may exceed what a cached counter holds in this model is    *)
(* kept as two decimal limbs <<hi, lo>> standing for hi * Limb + lo.       *)

Limb == 100000
\* 2^32 = 42949 * Limb + 67296
TwoPow32Hi == 42949
TwoPow32Lo == 67296

Wide(n) == <<n \div Limb, n % Limb>>

\* a - b on u32 with wrap-around (overflow checks off), a and b below Limb
wrapping_sub(a, b) ==
    IF a >= b THEN Wide(a - b) ELSE <<TwoPow32Hi, TwoPow32Lo - (b - a)>>

\* does a - b on u32 overflow
sub_overflows(a, b) == a < b

\* wide <= n for a counter n below Limb
WideLeq(w, n) == w[1] = 0 /\ w[2] <= n

\* floor and remainder of (1000 * w) / d, the quotient as two limbs
ThousandthsDiv(w, d) ==
    LET low == w[2] * 1000
        high == w[1] * 1000 + (low \div Limb)
        rest == (high % d) * Limb + (low % Limb)
    IN  [q |-> <<high \div d, rest \div d>>, r |-> rest % d]

\* 100.0 * chance in tenths of a percent, rounded half to even as {:.1} prints it
PercentTenths(chance) ==
    LET dv == ThousandthsDiv(chance.num, chance.den)
        up == 2 * dv.r > chance.den \/ (2 * dv.r = chance.den /\ dv.q[2] % 2 = 1)
        lo == IF up THEN dv.q[2] + 1 ELSE dv.q[2]
    IN  IF lo = Limb THEN <<dv.q[1] + 1, 0>> ELSE <<dv.q[1], lo>>

Digits(n, width) ==
    LET s == ToString(n)
        pad[k \in 0..width] == IF k = 0 THEN "" ELSE "0" \o pad[k - 1]
    IN  pad[width - Len(s)] \o s

\* "{}" of a u32
FormatU32(w) == IF w[1] = 0 THEN ToString(w[2]) ELSE ToString(w[1]) \o Digits(w[2], 5)

\* "{:.1}%" of 100.0 * chance
FormatPercent(chance) ==
    LET p == PercentTenths(chance)
        whole == IF p[1] = 0 THEN ToString(p[2] \div 10)
                 ELSE ToString(p[1]) \o Digits(p[2] \div 10, 4)
    IN  whole \o "." \o ToString(p[2] % 10) \o "%"

-----------------------------------------------------------------------------
(* component/reset_chance.rs: the settings                                 *)

DEFAULT_GRADIENT == "DEFAULT_GRADIENT"
Gradients == {DEFAULT_GRADIENT, "Transparent"}
Colors == {"red", "blue"}
OptionalColors == {None} \cup {Some(c) : c \in Colors}

DefaultSettings ==
    [background |-> DEFAULT_GRADIENT,
     display_two_rows |-> FALSE,
     label_color |-> None,
     value_color |-> None,
     show_successes |-> FALSE,
     show_attempt_details |-> FALSE]

\* settings::Value, by variant
BoolValue(b) == [kind |-> "Bool", val |-> Some(b)]
OptionalColorValue(c) == [kind |-> "OptionalColor", val |-> c]
GradientValue(g) == [kind |-> "Gradient", val |-> Some(g)]
UIntValue(n) == [kind |-> "UInt", val |-> Some(n)]

Values ==
    {BoolValue(b) : b \in BOOLEAN}
        \cup {OptionalColorValue(c) : c \in OptionalColors}
        \cup {GradientValue(g) : g \in Gradients}
        \cup {UIntValue(0)}

\* the variant each setting index converts its value into
SettingKind(index) ==
    CASE index = 0 -> "Gradient"
      [] index \in {1, 4, 5} -> "Bool"
      [] index \in {2, 3} -> "OptionalColor"
      [] OTHER -> "Unsupported Setting Index"

SettingsCount == 6

\* a faulty variant: the index after the last setting is taken for a setting
Supported_one_more(index) == index <= SettingsCount

\* the arms of set_value's match that name a setting
Supported(index) == index < SettingsCount

\* value.into() for the field at index
Into(index, value) == IF index \in {2, 3} THEN value.val ELSE value.val[1]

\* a faulty variant: the two flags of the text are assigned crosswise
SetField_flags_crossed(s, index, v) ==
    CASE index = 0 -> [s EXCEPT !.background = v]
      [] index = 1 -> [s EXCEPT !.display_two_rows = v]
      [] index = 2 -> [s EXCEPT !.label_color = v]
      [] index = 3 -> [s EXCEPT !.value_color = v]
      [] index = 4 -> [s EXCEPT !.show_attempt_details = v]
      [] index = 5 -> [s EXCEPT !.show_successes = v]

SetField(s, index, v) ==
    CASE index = 0 -> [s EXCEPT !.background = v]
      [] index = 1 -> [s EXCEPT !.display_two_rows = v]
      [] index = 2 -> [s EXCEPT !.label_color = v]
      [] index = 3 -> [s EXCEPT !.value_color = v]
      [] index = 4 -> [s EXCEPT !.show_successes = v]
      [] index = 5 -> [s EXCEPT !.show_attempt_details = v]

\* the Field list of settings_description: name and current value
settings_description(s) ==
    <<[text |-> "Background", value |-> GradientValue(s.background)],
      [text |-> "Display 2 Rows", value |-> BoolValue(s.display_two_rows)],
      [text |-> "Label Color", value |-> OptionalColorValue(s.label_color)],
      [text |-> "Value Color", value |-> OptionalColorValue(s.value_color)],
      [text |-> "Show Successes", value |-> BoolValue(s.show_successes)],
      [text |-> "Show Attempt Details", value |-> BoolValue(s.show_attempt_details)]>>

-----------------------------------------------------------------------------
(* layout/parser/reset_chance.rs: the Settings element of a layout file    *)

\* a child tag and the text it encloses
Tag(name, text) == [name |-> name, text |-> text]

\* the text of a boolean in a layout file, and parse_bool reading it
BoolTexts == {"True", "False"}
parse_bool(text) == text = "True"

\* the tags GradientBuilder::parse_background takes for itself; the builder
\* is kept as the gradient it would build
BackgroundTagNames == {"BackgroundGradient"}
GradientBuilder_new == "Transparent"

UnsupportedTagNames == {"ChanceMode", "Accuracy", "Basis"}

\* the child tags of a well-formed Settings element
Tags ==
    {Tag("TextColor", c) : c \in Colors}
        \cup {Tag("OverrideTextColor", b) : b \in BoolTexts}
        \cup {Tag("ChanceColor", c) : c \in Colors}
        \cup {Tag("OverrideChanceColor", b) : b \in BoolTexts}
        \cup {Tag("Display2Rows", b) : b \in BoolTexts}
        \cup {Tag(n, g) : n \in BackgroundTagNames, g \in Gradients}
        \cup {Tag(n, "") : n \in UnsupportedTagNames}

\* the parser's position and locals
ParserAt(at, consumed, override_label, override_value, background_builder) ==
    Some([at |-> at, consumed |-> consumed, override_label |-> override_label,
          override_value |-> override_value,
          background_builder |-> background_builder])

\* the parser has returned Ok(())
Parsed == ParserAt("returned", <<>>, FALSE, FALSE, GradientBuilder_new)

\* a faulty variant: the chance mode tag is read as the show successes flag
settings_after_tag_reading_chance_mode(s, tag) ==
    IF tag.name \in BackgroundTagNames
    THEN s
    ELSE CASE tag.name = "TextColor" -> [s EXCEPT !.label_color = Some(tag.text)]
           [] tag.name = "ChanceColor" -> [s EXCEPT !.value_color = Some(tag.text)]
           [] tag.name = "Display2Rows" ->
                [s EXCEPT !.display_two_rows = parse_bool(tag.text)]
           [] tag.name = "ChanceMode" -> [s EXCEPT !.show_successes = TRUE]
           [] OTHER -> s

\* the settings after the closure of parse_children has run on one tag
settings_after_tag(s, tag) ==
    IF tag.name \in BackgroundTagNames
    THEN s
    ELSE CASE tag.name = "TextColor" -> [s EXCEPT !.label_color = Some(tag.text)]
           [] tag.name = "ChanceColor" -> [s EXCEPT !.value_color = Some(tag.text)]
           [] tag.name = "Display2Rows" ->
                [s EXCEPT !.display_two_rows = parse_bool(tag.text)]
           [] OTHER -> s

\* the parser's locals after the closure has run on one tag
locals_after_tag(p, tag) ==
    IF tag.name \in BackgroundTagNames
    THEN [p EXCEPT !.background_builder = tag.text]
    ELSE CASE tag.name = "OverrideTextColor" ->
                [p EXCEPT !.override_label = parse_bool(tag.text)]
           [] tag.name = "OverrideChanceColor" ->
                [p EXCEPT !.override_value = parse_bool(tag.text)]
           [] OTHER -> p

\* a faulty variant: a parsed color stays without its override
Overridden_always(color, override) == color

\* the color setting after `if !override { color = None }`
Overridden(color, override) == IF ~override THEN None ELSE color

-----------------------------------------------------------------------------
(* component/reset_chance.rs: update_state                                 *)

\* a faulty variant: the phase invalidates the cache only when it differs
PhaseChanged_only_when_different(t, cached_phase) == Some(t.phase) # cached_phase

\* a faulty variant: every refresh invalidates the cache
PhaseChanged_always(t, cached_phase) == TRUE

PhaseChanged(t, cached_phase) ==
    Some(t.phase) # cached_phase \/ t.phase = "NotRunning"

\* a faulty variant: a changed split index does not invalidate the cache
IndexChanged_never(t, cached_index) == FALSE

IndexChanged(t, cached_index) == t.split_index # cached_index

\* the f64 values 0.0 and 1.0 and the quotient of two counters
Zero == [num |-> Wide(0), den |-> 1]
One == [num |-> Wide(1), den |-> 1]

\* a faulty variant: the no-data chance does not depend on the framing
Chance_zero_without_data(counts, show_successes) ==
    IF counts.total_attempts = 0
    THEN Zero
    ELSE [num |-> counts.successful_attempts, den |-> counts.total_attempts]

Chance(counts, show_successes) ==
    IF counts.total_attempts = 0
    THEN IF show_successes THEN One ELSE Zero
    ELSE [num |-> counts.successful_attempts, den |-> counts.total_attempts]

Key(show_successes) == IF show_successes THEN "Success Chance" ELSE "Reset Chance"

ValueText(counts, chance, show_attempt_details) ==
    IF show_attempt_details
    THEN FormatU32(counts.successful_attempts) \o "/"
            \o ToString(counts.total_attempts) \o " (" \o FormatPercent(chance) \o ")"
    ELSE FormatPercent(chance)

\* a faulty variant: the numerator of the reset chance is written into the cache
CountsLeftInCache_flipped(cached, show_successes) ==
    IF show_successes \/ cached[1].successful_attempts > cached[1].total_attempts
    THEN cached
    ELSE Some(SuccessCounts(cached[1].total_attempts - cached[1].successful_attempts,
                            cached[1].total_attempts))

\* self.success_counts at the end of update_state: `counts` is a clone
CountsLeftInCache(cached, show_successes) == cached

\* a faulty variant: the index is looked at only if the phase has not changed
CacheAfter_index_else_phase(t) ==
    LET phase_changed == PhaseChanged(t, timer_phase)
        index_changed == ~phase_changed /\ IndexChanged(t, split_index)
        after_index == IF phase_changed \/ index_changed THEN None ELSE success_counts
    IN  [timer_phase |-> IF phase_changed THEN Some(t.phase) ELSE timer_phase,
         split_index |-> IF index_changed THEN t.split_index ELSE split_index,
         calculated |-> IF after_index = None THEN Some(calculate(t)) ELSE None,
         success_counts |-> IF after_index = None THEN Some(calculate(t)) ELSE after_index]

\* the cache after the three checks at the head of update_state
CacheAfter(t) ==
    LET phase_changed == PhaseChanged(t, timer_phase)
        after_phase == IF phase_changed THEN None ELSE success_counts
        index_changed == IndexChanged(t, split_index)
        after_index == IF index_changed THEN None ELSE after_phase
    IN  [timer_phase |-> IF phase_changed THEN Some(t.phase) ELSE timer_phase,
         split_index |-> IF index_changed THEN t.split_index ELSE split_index,
         calculated |-> IF after_index = None THEN Some(calculate(t)) ELSE None,
         success_counts |-> IF after_index = None THEN Some(calculate(t)) ELSE after_index]

\* a faulty variant: the numerator is the successes under either framing
LocalCounts_never_flipped(cached, show_successes) ==
    [successful_attempts |-> Wide(cached.successful_attempts),
     total_attempts |-> cached.total_attempts]

\* the local `counts`: the cached counters, flipped for the reset chance
LocalCounts(cached, show_successes) ==
    [successful_attempts |->
        IF show_successes
        THEN Wide(cached.successful_attempts)
        ELSE wrapping_sub(cached.total_attempts, cached.successful_attempts),
     total_attempts |-> cached.total_attempts]

SubtractionOverflows(cached, show_successes) ==
    ~show_successes /\ sub_overflows(cached.total_attempts, cached.successful_attempts)

StateOf(counts, chance) ==
    [background |-> settings.background,
     key_color |-> settings.label_color,
     value_color |-> settings.value_color,
     semantic_color |-> "Default",
     key |-> Key(settings.show_successes),
     value |-> ValueText(counts, chance, settings.show_attempt_details),
     key_abbreviations |-> <<>>,
     display_two_rows |-> settings.display_two_rows,
     updates_frequently |-> FALSE]

-----------------------------------------------------------------------------
(* The operations.                                                         *)

\* Component::new()
Init ==
    /\ settings = DefaultSettings
    /\ timer_phase = None
    /\ split_index = None
    /\ success_counts = None
    /\ timer = None
    /\ before = None
    /\ result = None
    /\ locals = None
    /\ state = None
    /\ panicked = FALSE
    /\ panic_message = None
    /\ overflow_checks \in BOOLEAN
    /\ description = None
    /\ parser = None
    /\ previous = None

\* The snapshot with the parts of the run cleared that calculate does not
\* read in the snapshot's phase (AnalysisReadsOnlyThis states that calculate
\* cannot tell the two apart).
ReadByAnalysis(t) ==
    LET i == unwrap_or_default(t.split_index)
        in_attempt == t.phase \in {"Running", "Paused"}
    IN  [t EXCEPT
            !.run.attempt_count =
                IF in_attempt /\ i # 0 THEN 0 ELSE @,
            !.run.attempt_history = IF in_attempt THEN <<>> ELSE @,
            !.run.segments =
                [k \in DOMAIN @ |->
                    IF in_attempt /\ (k = i + 1 \/ k = i) THEN @[k] ELSE 0]]

\* The snapshots a Timer hands out: no split index while not running, the
\* number of segments as index once the attempt has ended. The component
\* reads the run through calculate only, so one run stands for all the runs
\* calculate cannot tell apart.
TimerSnapshots ==
    {t \in Snapshots :
        /\ t.phase = "NotRunning" => t.split_index = None
        /\ t.phase = "Ended" => t.split_index = Some(NumSegments)
        /\ ReadByAnalysis(t) = t}

\* Component::state(&timer.snapshot()), that is Component::update_state on
\* the snapshot t into a fresh key_value::State
UpdateState(t) ==
    /\ ~panicked
    /\ timer = None
    /\ parser \in {None, Parsed}
    /\ timer' = Some(t)
    /\ LET cache == CacheAfter(t)
           cached == cache.success_counts[1]
           counts == LocalCounts(cached, settings.show_successes)
           chance == Chance(counts, settings.show_successes)
       IN  /\ before' = Some([timer_phase |-> timer_phase,
                               split_index |-> split_index,
                               success_counts |-> success_counts])
           /\ timer_phase' = cache.timer_phase
           /\ split_index' = cache.split_index
           /\ success_counts' =
                CountsLeftInCache(cache.success_counts, settings.show_successes)
           /\ result' = cache.calculated
           /\ IF overflow_checks /\ SubtractionOverflows(cached, settings.show_successes)
              THEN /\ panicked' = TRUE
                   /\ panic_message' = Some("attempt to subtract with overflow")
                   /\ UNCHANGED <<locals, state>>
              ELSE /\ locals' = Some([counts |-> counts, chance |-> chance,
                                      divided |-> counts.total_attempts # 0])
                   /\ state' = Some(StateOf(counts, chance))
                   /\ UNCHANGED <<panicked, panic_message>>
    /\ description' = None
    /\ UNCHANGED <<settings, overflow_checks, parser, previous>>

\* the caller is done with the returned state and the snapshot
Release ==
    /\ ~panicked
    /\ timer # None
    /\ timer' = None
    /\ before' = None
    /\ result' = None
    /\ locals' = None
    /\ state' = None
    /\ previous' = None
    /\ UNCHANGED <<settings, timer_phase, split_index, success_counts, panicked,
                   panic_message, overflow_checks, description, parser>>

\* a faulty variant: a new value for a setting drops the cached counters
SetValue_clearing_cache(index, value) ==
    /\ ~panicked
    /\ timer = None
    /\ parser \in {None, Parsed}
    /\ IF ~Supported(index)
       THEN /\ panicked' = TRUE
            /\ panic_message' = Some("Unsupported Setting Index")
            /\ UNCHANGED <<settings, success_counts>>
       ELSE IF value.kind # SettingKind(index)
       THEN /\ panicked' = TRUE
            /\ panic_message' = Some("WrongType")
            /\ UNCHANGED <<settings, success_counts>>
       ELSE /\ settings' = SetField(settings, index, Into(index, value))
            /\ success_counts' = None
            /\ UNCHANGED <<panicked, panic_message>>
    /\ description' = None
    /\ UNCHANGED <<timer_phase, split_index, timer, before, result,
                   locals, state, overflow_checks, parser, previous>>

\* Component::set_value
SetValue(index, value) ==
    /\ ~panicked
    /\ timer = None
    /\ parser \in {None, Parsed}
    /\ IF ~Supported(index)
       THEN /\ panicked' = TRUE
            /\ panic_message' = Some("Unsupported Setting Index")
            /\ UNCHANGED settings
       ELSE IF value.kind # SettingKind(index)
       THEN /\ panicked' = TRUE
            /\ panic_message' = Some("WrongType")
            /\ UNCHANGED settings
       ELSE /\ settings' = SetField(settings, index, Into(index, value))
            /\ UNCHANGED <<panicked, panic_message>>
    /\ description' = None
    /\ UNCHANGED <<timer_phase, split_index, success_counts, timer, before, result,
                   locals, state, overflow_checks, parser, previous>>

\* the settings update_state derives the key and the value text from
TextSettings == {4, 5}

Next ==
    \/ \E t \in TimerSnapshots : UpdateState(t)
    \/ Release
    \/ \E index \in TextSettings, value \in {BoolValue(b) : b \in BOOLEAN} :
            SetValue(index, value)

Spec == Init /\ [][Next]_vars

-----------------------------------------------------------------------------
(* The analysis on its own, over every snapshot.                           *)

InitAnalysis ==
    /\ settings = DefaultSettings
    /\ timer_phase = None
    /\ split_index = None
    /\ success_counts = None
    /\ timer \in {Some(t) : t \in Snapshots}
    /\ before = None
    /\ result = None
    /\ locals = None
    /\ state = None
    /\ panicked = FALSE
    /\ panic_message = None
    /\ overflow_checks = FALSE
    /\ description = None
    /\ parser = None
    /\ previous = None

\* reset_chance::calculate(&snapshot)
Calculate ==
    /\ result = None
    /\ result' = Some(calculate(timer[1]))
    /\ UNCHANGED <<settings, timer_phase, split_index, success_counts, timer, before,
                   locals, state, panicked, panic_message, overflow_checks,
                   description, parser, previous>>

NextAnalysis == Calculate

SpecAnalysis == InitAnalysis /\ [][NextAnalysis]_vars

-----------------------------------------------------------------------------
(* The settings: set_value, settings_mut, settings_description and the     *)
(* layout parser, with refreshes in between.                               *)

\* Component::settings_description
SettingsDescription ==
    /\ ~panicked
    /\ timer = None
    /\ parser \in {None, Parsed}
    /\ description = None
    /\ description' = Some(settings_description(settings))
    /\ UNCHANGED <<settings, timer_phase, split_index, success_counts, timer, before,
                   result, locals, state, panicked, panic_message, overflow_checks,
                   parser, previous>>

\* settings written through Component::settings_mut
WrittenSettings ==
    {DefaultSettings,
     [background |-> "Transparent", display_two_rows |-> TRUE,
      label_color |-> Some("red"), value_color |-> Some("blue"),
      show_successes |-> TRUE, show_attempt_details |-> TRUE]}

\* *component.settings_mut() = s
SettingsMut(s) ==
    /\ ~panicked
    /\ timer = None
    /\ parser \in {None, Parsed}
    /\ settings' = s
    /\ description' = None
    /\ UNCHANGED <<timer_phase, split_index, success_counts, timer, before, result,
                   locals, state, panicked, panic_message, overflow_checks, parser,
                   previous>>

\* parser::reset_chance::settings up to parse_children; the layout parser
\* hands it the component it has just created
BeginParse ==
    /\ ~panicked
    /\ timer = None
    /\ parser = None
    /\ settings = DefaultSettings
    /\ timer_phase = None
    /\ description = None
    /\ parser' = ParserAt("children", <<>>, FALSE, FALSE, GradientBuilder_new)
    /\ UNCHANGED <<settings, timer_phase, split_index, success_counts, timer, before,
                   result, locals, state, panicked, panic_message, overflow_checks,
                   description, previous>>

\* parse_children calls the closure on the next child tag
ParseTag(tag) ==
    /\ parser # None
    /\ parser[1].at = "children"
    /\ Len(parser[1].consumed) < MaxTags
    /\ settings' = settings_after_tag(settings, tag)
    /\ parser' = Some([locals_after_tag(parser[1], tag) EXCEPT
                            !.consumed = Append(@, tag)])
    /\ UNCHANGED <<timer_phase, split_index, success_counts, timer, before, result,
                   locals, state, panicked, panic_message, overflow_checks,
                   description, previous>>

\* the end of the element: the overrides are applied, the background built
EndParse ==
    /\ parser # None
    /\ parser[1].at = "children"
    /\ settings' = [settings EXCEPT
            !.label_color = Overridden(@, parser[1].override_label),
            !.value_color = Overridden(@, parser[1].override_value),
            !.background = parser[1].background_builder]
    /\ parser' = Some([parser[1] EXCEPT !.at = "done"])
    /\ UNCHANGED <<timer_phase, split_index, success_counts, timer, before, result,
                   locals, state, panicked, panic_message, overflow_checks,
                   description, previous>>

\* Ok(()) is returned, the reader and the locals are gone
ReturnParse ==
    /\ parser # None
    /\ parser[1].at = "done"
    /\ parser' = Parsed
    /\ UNCHANGED <<settings, timer_phase, split_index, success_counts, timer, before,
                   result, locals, state, panicked, panic_message, overflow_checks,
                   description, previous>>

\* the snapshots of one attempt at its first segment
SettingsSnapshots ==
    {t \in TimerSnapshots :
        /\ t.phase = "Running"
        /\ t.split_index = Some(0)
        /\ t.run.attempt_count = MaxAttemptCount}

NextSettings ==
    \/ \E t \in SettingsSnapshots : UpdateState(t)
    \/ Release
    \/ \E index \in 0..MaxIndex, value \in Values : SetValue(index, value)
    \/ \E s \in WrittenSettings : SettingsMut(s)
    \/ SettingsDescription
    \/ BeginParse
    \/ \E tag \in Tags : ParseTag(tag)
    \/ EndParse
    \/ ReturnParse

SpecSettings == Init /\ [][NextSettings]_vars

-----------------------------------------------------------------------------
(* The text over successive refreshes: the caller keeps what the last two  *)
(* refreshes showed.                                                       *)

\* what is kept of the refresh that has returned
Kept ==
    [settings |-> settings,
     success_counts |-> success_counts,
     same_key |-> /\ before[1].timer_phase = Some(timer[1].phase)
                  /\ before[1].split_index = timer[1].split_index
                  /\ timer[1].phase # "NotRunning",
     counts |-> locals[1].counts,
     chance |-> locals[1].chance,
     value |-> state[1].value]

\* the caller keeps the returned state and lets go of the snapshot
Keep ==
    /\ ~panicked
    /\ state # None
    /\ previous' = IF previous = <<>> THEN <<Kept>> ELSE <<Kept, previous[1]>>
    /\ timer' = None
    /\ before' = None
    /\ result' = None
    /\ locals' = None
    /\ state' = None
    /\ UNCHANGED <<settings, timer_phase, split_index, success_counts, panicked,
                   panic_message, overflow_checks, description, parser>>

\* the snapshots of attempts at their first segment: running with any
\* counters, paused with the counters of a new run
DisplaySnapshots ==
    {t \in TimerSnapshots :
        /\ t.split_index = Some(0)
        /\ \/ t.phase = "Running"
           \/ t.phase = "Paused" /\ calculate(t) = SuccessCounts(0, 0)}

NextDisplay ==
    \/ \E t \in DisplaySnapshots : UpdateState(t)
    \/ Keep
    \/ \E index \in TextSettings, value \in {BoolValue(b) : b \in BOOLEAN} :
            SetValue(index, value)

SpecDisplay == Init /\ [][NextDisplay]_vars

-----------------------------------------------------------------------------
(* Properties of the cache.                                                *)

\* update_state has run on the snapshot in `timer` (and returned or panicked)
Refreshed == before # None

SamePhase == before[1].timer_phase = Some(timer[1].phase)
SameIndex == before[1].split_index = timer[1].split_index

\* C1 as stated: a refresh whose snapshot has the phase and the split index
\* of the refresh before it leaves the cached counters as they were,
\* whatever happened to the run's history in between.
C1_AsStated ==
    (Refreshed /\ SamePhase /\ SameIndex)
        => success_counts = before[1].success_counts

\* C1 amended: a refresh whose snapshot has the phase and the split index of
\* the refresh before it, the phase not being NotRunning, leaves the cached
\* counters as they were and does not run the analysis, whatever happened to
\* the run's history in between.
C1_CacheReusedWhileKeyUnchanged ==
    (Refreshed /\ SamePhase /\ SameIndex /\ timer[1].phase # "NotRunning")
        => (success_counts = before[1].success_counts /\ result = None)

\* a refresh reused counters that the analysis would no longer return
C1_Witness ==
    /\ state # None
    /\ SamePhase /\ SameIndex
    /\ timer[1].phase = "Running"
    /\ result = None
    /\ success_counts = before[1].success_counts
    /\ success_counts # Some(calculate(timer[1]))

\* C2: after a refresh on a NotRunning snapshot the cached counters are the
\* ones the analysis returned for that snapshot, also when the previous
\* refresh saw NotRunning and the same split index.
C2_NotRunningAlwaysRecomputes ==
    (Refreshed /\ timer[1].phase = "NotRunning")
        => /\ result = Some(calculate(timer[1]))
           /\ success_counts = result

\* two NotRunning refreshes in a row, the second replaced the counters
C2_Witness ==
    /\ state # None
    /\ timer[1].phase = "NotRunning"
    /\ SamePhase /\ SameIndex
    /\ before[1].success_counts # None
    /\ success_counts # before[1].success_counts

\* C3: a refresh whose snapshot differs from the cache in phase or in split
\* index (a new component's empty cache included) stores the counters the
\* analysis returns for that snapshot and derives its output from them.
C3_KeyChangeRecomputes ==
    (Refreshed /\ (~SamePhase \/ ~SameIndex))
        => /\ result = Some(calculate(timer[1]))
           /\ success_counts = result
           /\ state # None =>
                locals[1].counts = LocalCounts(calculate(timer[1]), settings.show_successes)

\* only the split index changed, and the counters were replaced
C3_Witness ==
    /\ state # None
    /\ SamePhase /\ ~SameIndex
    /\ before[1].success_counts # None
    /\ success_counts # before[1].success_counts
    /\ success_counts = Some(calculate(timer[1]))

-----------------------------------------------------------------------------
(* Properties of the analysis (SpecAnalysis).                              *)

Analysed == result # None

\* the index update_state and calculate work with
IndexOrZero(t) == IF t.split_index = None THEN 0 ELSE t.split_index[1]

\* the attempts of the history that carry a real time
Completed(run) == Len(SelectSeq(run.attempt_history, LAMBDA a : a))

\* calculate reads of the run only what ReadByAnalysis keeps
AnalysisReadsOnlyThis ==
    Analysed => result = Some(calculate(ReadByAnalysis(timer[1])))

\* C4: in the phases Running, Paused and NotRunning the analysis returns
\* counters with successful_attempts <= total_attempts whenever
\* total_attempts > 0.
C4_SuccessfulAtMostTotal ==
    (Analysed /\ timer[1].phase # "Ended" /\ result[1].total_attempts > 0)
        => result[1].successful_attempts <= result[1].total_attempts

\* C7: in the phases Running and Paused, at split index i (0 when unset),
\* successful_attempts is the number of actual runs in the history of
\* segment i, and total_attempts is the attempt count for i = 0 and the
\* number of actual runs in the history of segment i - 1 otherwise.
C7_InAttemptCounts ==
    (Analysed /\ timer[1].phase \in {"Running", "Paused"})
        => LET i == IndexOrZero(timer[1])
               run == timer[1].run
           IN  /\ result[1].successful_attempts = run.segments[i + 1]
               /\ i = 0 => result[1].total_attempts = run.attempt_count
               /\ i > 0 => result[1].total_attempts = run.segments[i]

\* at index 1 the total comes from segment 0, not from the attempt count
C7_Witness ==
    /\ Analysed
    /\ timer[1].phase = "Paused"
    /\ timer[1].split_index = Some(1)
    /\ timer[1].run.attempt_count = 0
    /\ timer[1].run.segments[1] = 2
    /\ result = Some(SuccessCounts(1, 2))

\* C9: in the phase NotRunning successful_attempts is the number of attempts
\* of the history with a real time and total_attempts is the attempt count,
\* whatever the split index.
C9_NotRunningCounts ==
    (Analysed /\ timer[1].phase = "NotRunning")
        => /\ result[1].successful_attempts = Completed(timer[1].run)
           /\ result[1].total_attempts = timer[1].run.attempt_count

\* a history with an attempt that was not completed, and a split index set
C9_Witness ==
    /\ Analysed
    /\ timer[1].phase = "NotRunning"
    /\ timer[1].split_index = Some(1)
    /\ timer[1].run.attempt_history = <<TRUE, FALSE>>
    /\ timer[1].run.attempt_count = 2
    /\ result = Some(SuccessCounts(1, 2))

-----------------------------------------------------------------------------
(* Properties of what update_state returns.                                *)

Returned == state # None

\* C5: update_state has no error path: it returns a state for every
\* component and every snapshot.
C5_RefreshIsTotal == Refreshed => (~panicked /\ Returned)

\* C6: the chance of every refresh lies in [0, 1].
C6_ChanceInUnitInterval ==
    Returned => WideLeq(locals[1].chance.num, locals[1].chance.den)

\* the value text for the given numerator, total and percentage
Shown(numerator, total, percent) ==
    IF settings.show_attempt_details
    THEN numerator \o "/" \o total \o " (" \o percent \o ")"
    ELSE percent

\* C8: in the phase Ended the analysis returns one more than the number of
\* completed attempts of the history for both counters, whatever the
\* attempt count; a refresh in that phase shows a reset chance of 0.0% and
\* a success chance of 100.0%.
C8_EndedCounts ==
    (Refreshed /\ timer[1].phase = "Ended")
        => LET cached == success_counts[1]
               count == ToString(cached.total_attempts)
           IN  /\ result # None =>
                    result = Some(SuccessCounts(1 + Completed(timer[1].run),
                                                1 + Completed(timer[1].run)))
               /\ cached.successful_attempts = cached.total_attempts
               /\ Returned
               /\ state[1].value =
                    IF settings.show_successes
                    THEN Shown(count, count, "100.0%")
                    ELSE Shown("0", count, "0.0%")

\* two completed attempts in the history, the attempt count at odds with it
C8_Witness ==
    /\ Returned
    /\ timer[1].phase = "Ended"
    /\ timer[1].run.attempt_history = <<TRUE, TRUE>>
    /\ timer[1].run.attempt_count = 0
    /\ result = Some(SuccessCounts(3, 3))
    /\ state[1].value = "0.0%"

\* C10: when the counters a refresh uses have total_attempts = 0, nothing is
\* divided and the percentage shown is 0.0% for the reset chance and 100.0%
\* for the success chance.
C10_NoData ==
    (Returned /\ locals[1].counts.total_attempts = 0)
        => /\ ~locals[1].divided
           /\ state[1].value =
                Shown(FormatU32(locals[1].counts.successful_attempts), "0",
                      IF settings.show_successes THEN "100.0%" ELSE "0.0%")

\* a run without attempts, shown as success chance
C10_Witness ==
    /\ Returned
    /\ timer[1].run.attempt_count = 0
    /\ timer[1].run.attempt_history = <<>>
    /\ timer[1].phase = "NotRunning"
    /\ settings.show_successes
    /\ state[1].value = "100.0%"

-----------------------------------------------------------------------------
(* Properties of the settings.                                             *)

\* C11: set_value with an index of six or more fails with the out-of-range
\* panic whatever the value is, and leaves every setting and every field of
\* the cache as it was.
C11_OutOfRangeIndexFails ==
    [][\A index \in SettingsCount..MaxIndex, value \in Values :
            SetValue(index, value) =>
                /\ panicked'
                /\ panic_message' = Some("Unsupported Setting Index")
                /\ UNCHANGED <<settings, timer_phase, split_index, success_counts>>]_vars

\* the out-of-range panic on a component with changed settings and a filled cache
C11_Witness ==
    /\ panicked
    /\ panic_message = Some("Unsupported Setting Index")
    /\ success_counts # None
    /\ settings # DefaultSettings

\* C12: no operation on the settings (set_value, a write through
\* settings_mut, settings_description, the layout parser) changes the cached
\* phase, index or counters: they change in no step but one that takes a
\* snapshot, a refresh. And a refresh that finds its own phase, other than
\* NotRunning, and its own index in the cache keeps the cached counters
\* without analysing, whatever happened to the settings since.
C12_SettingsLeaveCache ==
    [][/\ timer' = None => UNCHANGED <<timer_phase, split_index, success_counts>>
       /\ (/\ timer = None
           /\ timer' # None
           /\ timer_phase = Some(timer'[1].phase)
           /\ timer'[1].phase # "NotRunning"
           /\ split_index = timer'[1].split_index)
            => success_counts' = success_counts /\ result' = None]_vars

\* a refresh under changed settings that shows counters the snapshot no
\* longer gives
C12_Witness ==
    /\ Refreshed
    /\ state # None
    /\ SamePhase /\ SameIndex
    /\ result = None
    /\ success_counts = before[1].success_counts
    /\ success_counts # Some(calculate(timer[1]))
    /\ settings \notin WrittenSettings
    /\ state[1].key = "Success Chance"
    /\ state[1].key_color = Some("blue")
    /\ parser = Parsed

\* the parser is at the end of the Settings element, about to return
ParseDone == parser # None /\ parser[1].at = "done"

\* the tags read contain this one
Read(tag) == \E k \in DOMAIN parser[1].consumed : parser[1].consumed[k] = tag
ReadNamed(name) == \E k \in DOMAIN parser[1].consumed : parser[1].consumed[k].name = name

\* C13: after parsing, the label color is None unless the tags contain
\* OverrideTextColor with the value true, and the value color is None unless
\* they contain OverrideChanceColor with the value true: whether a color tag
\* was read, which color it carried and where it stood make no difference.
C13_ColorsNeedOverride ==
    ParseDone =>
        /\ settings.label_color # None => Read(Tag("OverrideTextColor", "True"))
        /\ settings.value_color # None => Read(Tag("OverrideChanceColor", "True"))

\* both colors were read, the label color after its override was switched
\* off, the value color without any override: both settings are None
C13_Witness ==
    /\ ParseDone
    /\ Len(parser[1].consumed) >= 3
    /\ parser[1].consumed[2] = Tag("TextColor", "blue")
    /\ parser[1].consumed[1] = Tag("OverrideTextColor", "False")
    /\ ReadNamed("ChanceColor")
    /\ ~ReadNamed("OverrideChanceColor")
    /\ settings.label_color = None
    /\ settings.value_color = None

\* the step reads one more child tag
ReadsTag ==
    /\ parser # None
    /\ parser' # None
    /\ Len(parser'[1].consumed) = Len(parser[1].consumed) + 1

\* C14: a tag the parser does not know (ChanceMode, Accuracy, Basis) is
\* read at any place without an error and without a change to any setting
\* or to what the parser has gathered, so that the result is the one of
\* the tags without it; and no step of the parser changes show_successes or
\* show_attempt_details.
C14_UnsupportedTagsSkipped ==
    [][/\ (ReadsTag /\ parser'[1].consumed[Len(parser'[1].consumed)].name
                            \in UnsupportedTagNames)
            => /\ UNCHANGED <<settings, panicked>>
               /\ parser' = Some([parser[1] EXCEPT
                        !.consumed = parser'[1].consumed])
       /\ parser' # parser
            => /\ settings'.show_successes = settings.show_successes
               /\ settings'.show_attempt_details = settings.show_attempt_details]_vars

\* an unsupported tag between an override and its color: the parser reaches
\* the end of the element and the color is set as without the tag
C14_Witness ==
    /\ ParseDone
    /\ ~panicked
    /\ Len(parser[1].consumed) >= 3
    /\ parser[1].consumed[1] = Tag("OverrideChanceColor", "True")
    /\ parser[1].consumed[2].name \in UnsupportedTagNames
    /\ parser[1].consumed[3] = Tag("ChanceColor", "red")
    /\ settings.value_color = Some("red")
    /\ settings.show_successes = DefaultSettings.show_successes

\* the names of the fields of a description, in order
FieldNames(d) == [k \in DOMAIN d |-> d[k].text]

\* A description handed back has these names in this order, and a set_value
\* that succeeds at index k with value v leaves a description whose entry at
\* position k (counted from zero) carries v and whose other entries are as
\* before.
DescriptionMatchesSetValue(names) ==
    /\ description' # None => FieldNames(description'[1]) = names
    /\ \A index \in 0..(SettingsCount - 1) :
        \A value \in {v \in Values : v.kind = SettingKind(index)} :
            (timer' = None /\ parser' = parser /\ SetValue(index, value))
                => LET old == settings_description(settings)
                       new == settings_description(settings')
                   IN  /\ new[index + 1].value = value
                       /\ \A k \in DOMAIN new : k # index + 1 => new[k] = old[k]

\* C15 as stated: settings_description returns six entries named Background,
\* Display in Two Rows, Label Color, Value Color, Show Successes, Show
\* Attempt Details, and entry k is the field set_value(k, v) assigns.
C15_AsStated ==
    [][DescriptionMatchesSetValue(
        <<"Background", "Display in Two Rows", "Label Color", "Value Color",
          "Show Successes", "Show Attempt Details">>)]_vars

\* C15, amended: settings_description returns six entries named Background,
\* Display 2 Rows, Label Color, Value Color, Show Successes, Show Attempt
\* Details in this order; entry k is the field set_value(k, v) assigns: after
\* a set_value(k, v) that succeeds, entry k carries v and the other five are
\* as before.
C15_DescriptionMatchesSetValue ==
    [][DescriptionMatchesSetValue(
        <<"Background", "Display 2 Rows", "Label Color", "Value Color",
          "Show Successes", "Show Attempt Details">>)]_vars

\* the description after set_value(1, true) on a new component
C15_Witness ==
    /\ description # None
    /\ Len(description[1]) = SettingsCount
    /\ description[1][2].value = BoolValue(TRUE)
    /\ description[1] =
            settings_description([DefaultSettings EXCEPT !.display_two_rows = TRUE])
    /\ parser = None

-----------------------------------------------------------------------------
(* Properties of the text shown.                                           *)

\* 100 * n / t to one decimal, halves to the even digit, as a text
PercentOf(n, t) ==
    LET twice == 2 * 1000 * n
        floor == twice \div (2 * t)
        rest == twice % (2 * t)
        tenths == IF rest > t \/ (rest = t /\ floor % 2 = 1) THEN floor + 1 ELSE floor
    IN  ToString(tenths \div 10) \o "." \o ToString(tenths % 10) \o "%"

\* C16: every refresh shows the key "Success Chance" and the numerator n = s
\* when show_successes is on, the key "Reset Chance" and n = t - s when it is
\* off, s and t being the cached counters; for t > 0 the percentage is
\* 100 * n / t to one decimal; the value reads "n/t (p%)" with the attempt
\* details and "p%" without.
C16_ValueDerivation ==
    Returned =>
        LET s == success_counts[1].successful_attempts
            t == success_counts[1].total_attempts
            n == IF settings.show_successes THEN s ELSE t - s
        IN  /\ state[1].key =
                    IF settings.show_successes THEN "Success Chance" ELSE "Reset Chance"
            /\ t > 0 =>
                    state[1].value = Shown(ToString(n), ToString(t), PercentOf(n, t))
            /\ t = 0 =>
                    \E p \in {"0.0%", "100.0%"} :
                        state[1].value = Shown(ToString(n), ToString(t), p)

\* C17: after every refresh the cached phase is the phase of the snapshot,
\* the cached index is the index of the snapshot (none included) and the
\* cached counters are present, whatever refreshes and changes of settings
\* came before; phase and index are both brought up to date in one refresh
\* when both have changed.
C17_CacheKeyIsSnapshot ==
    Refreshed =>
        /\ timer_phase = Some(timer[1].phase)
        /\ split_index = timer[1].split_index
        /\ success_counts # None

\* a refresh that found another phase and another index in a filled cache,
\* under changed settings
C17_Witness ==
    /\ Refreshed
    /\ before[1].success_counts # None
    /\ ~SamePhase
    /\ ~SameIndex
    /\ timer[1].split_index # None
    /\ before[1].split_index # None
    /\ settings.show_successes
    /\ Returned

\* the refresh found its own phase, other than NotRunning, and its own index
SameKey == SamePhase /\ SameIndex /\ timer[1].phase # "NotRunning"

\* both show the attempt details or neither does
SameDetails(a, b) == a.show_attempt_details = b.show_attempt_details

\* C18: the flip for the reset chance is made on a copy: the counters in
\* the cache after a refresh are what the analysis returned, to this refresh
\* or to the one they are kept from. So a refresh with show_successes off
\* shows the value text of the refresh before it with show_successes off on
\* the same phase (not NotRunning) and index, and also the text of the one
\* before a refresh with show_successes on in between.
C18_FlipOnCopy ==
    Returned =>
        /\ result # None => success_counts = result
        /\ (result = None /\ previous # <<>>)
                => success_counts = previous[1].success_counts
        /\ (/\ previous # <<>>
            /\ SameKey
            /\ ~settings.show_successes
            /\ ~previous[1].settings.show_successes
            /\ SameDetails(settings, previous[1].settings))
                => state[1].value = previous[1].value
        /\ (/\ Len(previous) = 2
            /\ SameKey
            /\ previous[1].same_key
            /\ ~settings.show_successes
            /\ previous[1].settings.show_successes
            /\ ~previous[2].settings.show_successes
            /\ SameDetails(settings, previous[2].settings))
                => state[1].value = previous[2].value

\* reset chance, success chance, reset chance again on the cached counters
\* 1 of 2, which the snapshot no longer gives: "1/2 (50.0%)" as at first
C18_Witness ==
    /\ Returned
    /\ Len(previous) = 2
    /\ SameKey
    /\ previous[1].same_key
    /\ ~settings.show_successes
    /\ previous[1].settings.show_successes
    /\ ~previous[2].settings.show_successes
    /\ success_counts = Some(SuccessCounts(1, 2))
    /\ calculate(timer[1]) # SuccessCounts(1, 2)
    /\ state[1].value = "1/2 (50.0%)"
    /\ previous[2].value = "1/2 (50.0%)"

\* this refresh and the one before it used the same cached counters under
\* settings that differ in show_successes alone
Complementary ==
    /\ Returned
    /\ previous # <<>>
    /\ success_counts = previous[1].success_counts
    /\ previous[1].settings = [settings EXCEPT !.show_successes = ~@]

====
